---- MODULE Spec2Model ----
(***************************************************************************)
(* A model of qiime2/core/archive/provenance_lib/usage_drivers.py: the     *)
(* module functions build_header and build_footer and the usage driver     *)
(* ReplayPythonUsage (its line buffers, import sets, action templating,    *)
(* comment wrapping and render/flush).                                     *)
(*                                                                         *)
(* Text.  A Python str is a sequence of runs <<atom, n>>: the atom         *)
(* repeated n times.  An atom is either one character ("a" stands for any  *)
(* letter, "-", " ", "#", "\n", ...) or an opaque piece of text whose      *)
(* inner characters no operation of the driver looks at (an identifier, a  *)
(* fixed phrase).  The empty str is <<>>.  A list of str is a sequence of  *)
(* such strs.                                                              *)
(***************************************************************************)
EXTENDS Integers, Sequences, FiniteSets, TLC

VARIABLES
    header,                 \* self.header: list of str
    footer,                 \* self.footer: list of str
    recorder,               \* self.recorder: list of str (the body)
    local_imports,          \* self.local_imports: set of str
    global_imports,         \* self.global_imports: set of str
    init_data_refs,         \* self.init_data_refs: dict (its keys)
    action_collection_size, \* self.action_collection_size
    call,                   \* the call being made / made last, with arguments
    ret,                    \* what the last call returned (render: the text)
    pc,                     \* "idle" (driver in use), "call" (one call pending), "done"
    nops                    \* number of calls made on the driver so far

vars == <<header, footer, recorder, local_imports, global_imports,
          init_data_refs, action_collection_size, call, ret, pc, nops>>

(***************************************************************************)
(* Bounds of the model.                                                    *)
(***************************************************************************)
MaxOps == 4        \* calls made on one driver in the assembler specification
MaxUuids == 4      \* artifacts parsed into one ProvDAG
MaxRuns == 3       \* runs of one character class in a comment's text
MaxInputs == 2     \* entries of one action's input_opts
MaxVars == 3       \* entries of one action's UsageOutputs

(***************************************************************************)
(* str and list helpers.                                                   *)
(***************************************************************************)
S(a) == << <<a, 1>> >>

Rep(a, n) == IF n = 0 THEN <<>> ELSE << <<a, n>> >>

RECURSIVE StrLen(_)
\* len(s) of a str all of whose atoms are single characters
StrLen(s) == IF s = <<>> THEN 0 ELSE s[1][2] + StrLen(Tail(s))

RECURSIVE Concat(_)
\* ''.join(strs)
Concat(strs) == IF strs = <<>> THEN <<>> ELSE strs[1] \o Concat(Tail(strs))

RECURSIVE Join(_, _)
\* sep.join(strs)
Join(sep, strs) ==
    IF strs = <<>> THEN <<>>
    ELSE IF Len(strs) = 1 THEN strs[1]
    ELSE strs[1] \o sep \o Join(sep, Tail(strs))

IsSpaceAtom(a) == a \in {" ", "\t", "\n"}

RECURSIVE LStrip(_)
LStrip(s) ==
    IF s = <<>> THEN <<>>
    ELSE IF IsSpaceAtom(s[1][1]) THEN LStrip(Tail(s)) ELSE s

RECURSIVE RStrip(_)
RStrip(s) ==
    IF s = <<>> THEN <<>>
    ELSE IF IsSpaceAtom(s[Len(s)][1]) THEN RStrip(SubSeq(s, 1, Len(s) - 1)) ELSE s

\* str.strip()
Strip(s) == LStrip(RStrip(s))

(***************************************************************************)
(* Lexical order.  The strs that the driver sorts (artifact uuids, import  *)
(* statements) are opaque atoms; LexOrder lists the universe of them in    *)
(* ascending lexical order, which is the order Python's sorted() gives.    *)
(***************************************************************************)
UuidUniverse ==
    <<"0a1f", "1b7c", "3c2e", "5d90", "7e44", "9f03", "c1aa">>

ImportUniverse ==
    <<"from q2_types.feature_table import BIOMV210Format",
      "from qiime2 import Artifact",
      "from qiime2 import Metadata",
      "import qiime2.plugins.dada2.actions as dada2_actions">>

LexOrder == UuidUniverse \o ImportUniverse

Rank(a) == CHOOSE i \in 1..Len(LexOrder) : LexOrder[i] = a

RECURSIVE sorted(_)
\* sorted(set_of_str): ascending, as a list
sorted(set) ==
    IF set = {} THEN <<>>
    ELSE LET m == CHOOSE x \in set : \A y \in set : Rank(x) <= Rank(y)
         IN  <<m>> \o sorted(set \ {m})

(***************************************************************************)
(* textwrap.wrap(text, width, break_long_words=False, initial_indent,      *)
(* subsequent_indent), as the standard library computes it: whitespace is  *)
(* normalised, the text is split into chunks by TextWrapper.wordsep_re     *)
(* (break_on_hyphens is left at its default, True), and the chunks are     *)
(* packed into lines by TextWrapper._wrap_chunks.                          *)
(* Character atoms: "a" any letter, "0" any digit, "-" the hyphen, " "     *)
(* and "\n" whitespace, "." a punctuation mark of wordsep_re's word_punct  *)
(* class, ":" any other printable character.                               *)
(***************************************************************************)
RECURSIVE PrefixLen(_, _)
\* the number of characters in the first r runs of t
PrefixLen(t, r) == IF r = 0 THEN 0 ELSE t[r][2] + PrefixLen(t, r - 1)

\* the run of t that holds the character at 1-based position i
RunOf(t, i) ==
    CHOOSE r \in 1..Len(t) : PrefixLen(t, r - 1) < i /\ i <= PrefixLen(t, r)

\* the character at 1-based position i of t, "" outside t
Ch(t, i) ==
    IF i < 1 \/ i > PrefixLen(t, Len(t)) THEN "" ELSE t[RunOf(t, i)][1]

\* the position of the last character of the run that holds position i
RunEnd(t, i) == PrefixLen(t, RunOf(t, i))

RECURSIVE Drop(_, _)
\* t[n:]
Drop(t, n) ==
    IF n = 0 \/ t = <<>> THEN t
    ELSE IF n >= t[1][2] THEN Drop(Tail(t), n - t[1][2])
    ELSE << <<t[1][1], t[1][2] - n>> >> \o Tail(t)

RECURSIVE Take(_, _)
\* t[:n]
Take(t, n) ==
    IF n = 0 \/ t = <<>> THEN <<>>
    ELSE IF n >= t[1][2] THEN <<t[1]>> \o Take(Tail(t), n - t[1][2])
    ELSE << <<t[1][1], n>> >>

\* t[p-1:e] for 1-based inclusive positions p..e
Slice(t, p, e) == Take(Drop(t, p - 1), e - p + 1)

IsWs(c) == c \in {" ", "\t", "\n"}
IsLetter(c) == c = "a"
IsWordChar(c) == c \in {"a", "0"}
IsWordPunct(c) == IsWordChar(c) \/ c = "."

\* chunk.strip() == ''
IsBlank(chunk) == \A i \in 1..Len(chunk) : IsWs(chunk[i][1])

\* TextWrapper._munge_whitespace: every whitespace character becomes a space
MungeWhitespace(t) ==
    [i \in 1..Len(t) |-> IF IsWs(t[i][1]) THEN <<" ", t[i][2]>> ELSE t[i]]

RECURSIVE WsEnd(_, _)
\* the last position of the whitespace that starts at p
WsEnd(t, p) ==
    LET e == RunEnd(t, p) IN IF IsWs(Ch(t, e + 1)) THEN WsEnd(t, e + 1) ELSE e

RECURSIVE HyphenEnd(_, _)
\* the last position of the hyphens that start at p
HyphenEnd(t, p) ==
    LET e == RunEnd(t, p) IN IF Ch(t, e + 1) = "-" THEN HyphenEnd(t, e + 1) ELSE e

\* (?<=word_punct) -{2,} (?=\w) at position p
EmDashAt(t, p) ==
    /\ IsWordPunct(Ch(t, p - 1))
    /\ Ch(t, p) = "-"
    /\ Ch(t, p + 1) = "-"
    /\ IsWordChar(Ch(t, HyphenEnd(t, p) + 1))

\* the hyphen after position q ends a chunk:
\*   -(?: (?<=letter{2}-) | (?<=letter-letter-)) (?= letter -? letter)
HyphenBreakAfter(t, q) ==
    /\ Ch(t, q + 1) = "-"
    /\ \/ IsLetter(Ch(t, q - 1)) /\ IsLetter(Ch(t, q))
       \/ IsLetter(Ch(t, q - 2)) /\ Ch(t, q - 1) = "-" /\ IsLetter(Ch(t, q))
    /\ IsLetter(Ch(t, q + 2))
    /\ \/ IsLetter(Ch(t, q + 3))
       \/ Ch(t, q + 3) = "-" /\ IsLetter(Ch(t, q + 4))

RECURSIVE WordEnd(_, _)
\* nowhitespace+? followed by the first of: hyphenated word, end of word,
\* em-dash.  Each of the three needs the character after the word to differ
\* from the word's last one, so the lazy match can only stop on the last
\* character of a run: the scan goes from run end to run end.
WordEnd(t, p) ==
    LET q == RunEnd(t, p)
    IN  IF HyphenBreakAfter(t, q) THEN q + 1
        ELSE IF Ch(t, q + 1) = "" \/ IsWs(Ch(t, q + 1)) THEN q
        ELSE IF IsWordPunct(Ch(t, q)) /\ EmDashAt(t, q + 1) THEN q
        ELSE WordEnd(t, q + 1)

\* the last position of the wordsep_re match that starts at p
MatchEnd(t, p) ==
    IF IsWs(Ch(t, p)) THEN WsEnd(t, p)
    ELSE IF EmDashAt(t, p) THEN HyphenEnd(t, p)
    ELSE WordEnd(t, p)

RECURSIVE SplitFrom(_, _)
SplitFrom(t, p) ==
    IF p > StrLen(t) THEN <<>>
    ELSE LET e == MatchEnd(t, p) IN <<Slice(t, p, e)>> \o SplitFrom(t, e + 1)

\* TextWrapper._split: the chunks of t, in order
Split(t) == SplitFrom(t, 1)

RECURSIVE FitEnd(_, _, _, _)
\* the inner loop of _wrap_chunks: the first chunk index, from i on, that no
\* longer fits in a line of the given width already holding cur_len characters
FitEnd(chunks, i, cur_len, width) ==
    IF i > Len(chunks) THEN i
    ELSE IF cur_len + StrLen(chunks[i]) <= width
         THEN FitEnd(chunks, i + 1, cur_len + StrLen(chunks[i]), width)
         ELSE i

RECURSIVE WrapChunks(_, _, _, _, _)
\* TextWrapper._wrap_chunks with drop_whitespace=True, break_long_words=False,
\* max_lines=None; both indents are `indent`
WrapChunks(chunks, i, lines, line_len, indent) ==
    IF i > Len(chunks) THEN lines
    ELSE LET width == line_len - StrLen(indent)
             i1 == IF IsBlank(chunks[i]) /\ lines # <<>> THEN i + 1 ELSE i
             j == FitEnd(chunks, i1, 0, width)
             \* _handle_long_word: an over-long chunk goes on a line of its own
             long == j <= Len(chunks) /\ j = i1 /\ StrLen(chunks[j]) > width
             k == IF long THEN j + 1 ELSE j
             cur == SubSeq(chunks, i1, k - 1)
             cur_line == IF cur # <<>> /\ IsBlank(cur[Len(cur)])
                         THEN SubSeq(cur, 1, Len(cur) - 1) ELSE cur
             lines2 == IF cur_line # <<>>
                       THEN Append(lines, indent \o Concat(cur_line)) ELSE lines
         IN  WrapChunks(chunks, k, lines2, line_len, indent)

textwrap_wrap(text, line_len, indent) ==
    WrapChunks(Split(MungeWhitespace(text)), 1, <<>>, line_len, indent)

LINE_LEN == 79

CommentPrefix == << <<"#", 1>>, <<" ", 1>> >>

\* faulty variant of comment_lines: the text is wrapped to LINE_LEN first and the
\* prefix is put before each line afterwards
comment_lines_prefix_after_wrap(line) ==
    textwrap_wrap(line, LINE_LEN + 2, CommentPrefix) \o << <<>> >>

\* the lines ReplayPythonUsage.comment hands to _add
comment_lines(line) ==
    textwrap_wrap(line, LINE_LEN, CommentPrefix) \o << <<>> >>

(***************************************************************************)
(* Module functions build_header and build_footer.                         *)
(***************************************************************************)
\* the f-string of lines 61-62; version and time stamp are the environment's
AttributionLine == S("# Auto-generated by qiime2 v.<vzn> at <time> on <date>")

SupportLine ==
    S("# For User Support, post to the QIIME2 Forum at https://forum.qiime2.org.")

build_header(shebang, boundary, copyright, extra_text) ==
    (IF shebang # <<>> THEN <<shebang>> ELSE <<>>)
    \o (IF boundary # <<>> THEN <<boundary>> ELSE <<>>)
    \o <<AttributionLine>>
    \o (IF copyright # <<>> THEN copyright ELSE <<>>)
    \o <<SupportLine>>
    \o (IF extra_text # <<>> THEN extra_text ELSE <<>>)
    \o (IF boundary # <<>> THEN <<boundary>> ELSE <<>>)

FooterNote ==
    S("# The following QIIME 2 Results were parsed to produce this script:")

\* f'# {u}'
UuidLine1(u) == CommentPrefix \o S(u)
\* f'# {u} \t {v}'
UuidLine2(u, v) == CommentPrefix \o S(u) \o S(" ") \o S("\t") \o S(" ") \o S(v)

Reverse(seq) == [i \in 1..Len(seq) |-> seq[Len(seq) + 1 - i]]

\* faulty variant of build_footer: the uuids are listed without sorted(), here in
\* descending order
build_footer_unsorted(parsed_artifact_uuids, boundary) ==
    LET uuids == Reverse(sorted(parsed_artifact_uuids))
        u_len == Len(uuids)
        pairs == [p \in 1..((u_len + 1) \div 2) |->
                    LET idx == 2 * (p - 1)
                    IN  IF idx = u_len - 1
                        THEN UuidLine1(uuids[idx + 1])
                        ELSE UuidLine2(uuids[idx + 1], uuids[idx + 2])]
    IN  <<boundary>> \o <<FooterNote>> \o pairs \o <<boundary>> \o << <<>> >>

\* parsed_artifact_uuids stands for dag._parsed_artifact_uuids, a set
build_footer(parsed_artifact_uuids, boundary) ==
    LET uuids == sorted(parsed_artifact_uuids)
        u_len == Len(uuids)
        \* range(0, u_len, 2) holds (u_len + 1) div 2 indices: 0, 2, 4, ...
        pairs == [p \in 1..((u_len + 1) \div 2) |->
                    LET idx == 2 * (p - 1)
                    IN  IF idx = u_len - 1
                        THEN UuidLine1(uuids[idx + 1])
                        ELSE UuidLine2(uuids[idx + 1], uuids[idx + 2])]
    IN  <<boundary>> \o <<FooterNote>> \o pairs \o <<boundary>> \o << <<>> >>

(***************************************************************************)
(* class ReplayPythonUsage: class attributes.                              *)
(***************************************************************************)
shebang == S("#!/usr/bin/env python")

header_boundary == << <<"#", 1>>, <<" ", 1>>, <<"-", 77>> >>

\* the lines of assets/copyright_note.txt and assets/python_howto.txt; the
\* assets are not part of the source, each stands as one opaque line
copyright == << S("# <assets/copyright_note.txt>") >>

how_to == << S("# <assets/python_howto.txt>") >>

\* ArtifactAPIUsage.INDENT
INDENT == << <<" ", 4>> >>

(***************************************************************************)
(* The driver's state and the methods that change it.  Each method is an   *)
(* action on the driver's fields and on ret, the value it returns.         *)
(***************************************************************************)
None == <<>>

\* faulty variant of _reset_state: local_imports is not cleared
reset_state_keeps_local_imports(reset_global_imports) ==
    /\ UNCHANGED local_imports
    /\ header' = <<>>
    /\ recorder' = <<>>
    /\ footer' = <<>>
    /\ init_data_refs' = {}
    /\ IF reset_global_imports
       THEN global_imports' = {}
       ELSE UNCHANGED global_imports

_reset_state(reset_global_imports) ==
    /\ local_imports' = {}
    /\ header' = <<>>
    /\ recorder' = <<>>
    /\ footer' = <<>>
    /\ init_data_refs' = {}
    /\ IF reset_global_imports
       THEN global_imports' = {}
       ELSE UNCHANGED global_imports

\* ArtifactAPIUsage._add: the lines go to the end of the recorder
_add(lines) == recorder' = recorder \o lines

\* ArtifactAPIUsage._update_imports: the statement joins global_imports and
\* local_imports.  Whether a statement that global_imports already holds is
\* put into local_imports again is left open (either may happen).
_update_imports(statements, again) ==
    /\ global_imports' = global_imports \cup statements
    /\ local_imports' =
          local_imports \cup {st \in statements : st \notin global_imports \/ again}

\* the text render() returns, and the header and footer it leaves behind
RenderHeader == IF header # <<>> THEN header \o << <<>> >> ELSE header

RenderFooter == IF footer # <<>> THEN << <<>> >> \o footer ELSE footer

\* faulty variant of RenderImports: the statements are listed without sorted(), here
\* in descending order
RenderImports_unsorted ==
    LET imps == Reverse(sorted(local_imports))
        sorted_imps == [i \in 1..Len(imps) |-> S(imps[i])]
    IN  IF sorted_imps # <<>> THEN sorted_imps \o << <<>> >> ELSE sorted_imps

RenderImports ==
    LET imps == sorted(local_imports)
        sorted_imps == [i \in 1..Len(imps) |-> S(imps[i])]
    IN  IF sorted_imps # <<>> THEN sorted_imps \o << <<>> >> ELSE sorted_imps

Rendered ==
    Join(S("\n"), RenderHeader \o RenderImports \o recorder \o RenderFooter)

render(flush) ==
    /\ ret' = Rendered
    /\ IF flush
       THEN _reset_state(FALSE)
       ELSE /\ header' = RenderHeader
            /\ footer' = RenderFooter
            /\ UNCHANGED <<recorder, local_imports, global_imports, init_data_refs>>

ReplayPythonUsage_build_header ==
    /\ header' = header \o build_header(shebang, header_boundary, copyright, how_to)
    /\ ret' = None
    /\ UNCHANGED <<footer, recorder, local_imports, global_imports, init_data_refs>>

ReplayPythonUsage_build_footer(dag) ==
    /\ footer' = footer \o build_footer(dag, header_boundary)
    /\ ret' = None
    /\ UNCHANGED <<header, recorder, local_imports, global_imports, init_data_refs>>

comment(line) ==
    /\ _add(comment_lines(line))
    /\ ret' = None
    /\ UNCHANGED <<header, footer, local_imports, global_imports, init_data_refs>>

(***************************************************************************)
(* Action templating.  An action is the live signature the registry gives: *)
(* [plugin_id, action_id, inputs, parameters, outputs], the last three     *)
(* lists of names in declared order.  input_opts is a list of <<key,       *)
(* value>> pairs in the recorded order; variables (a UsageOutputs) is a    *)
(* list of [output, name] records, name being what to_interface_name()     *)
(* returns for the variable recorded under that output.                    *)
(***************************************************************************)
HasVariable(variables, output) ==
    \E i \in 1..Len(variables) : variables[i].output = output

\* getattr(variables, output).to_interface_name()
VariableName(variables, output) ==
    variables[CHOOSE i \in 1..Len(variables) : variables[i].output = output].name

\* faulty variant of template_outputs_list: the names are listed in the order of the
\* recorded variables, not of the declared outputs
template_outputs_list_recorded_order(action, variables) ==
    LET output_vars == [i \in 1..Len(variables) |-> S(variables[i].name)]
    IN  IF Len(output_vars) = 1 THEN Append(output_vars, <<>>) ELSE output_vars

\* output_vars of _template_outputs as it stands before the join
template_outputs_list(action, variables) ==
    LET outputs == action.outputs
        output_vars == [i \in 1..Len(outputs) |->
                          IF HasVariable(variables, outputs[i])
                          THEN S(VariableName(variables, outputs[i]))
                          ELSE S("_")]
    IN  IF Len(output_vars) = 1 THEN Append(output_vars, <<>>) ELSE output_vars

\* faulty variant of _template_outputs: the joined names are not stripped
template_outputs_unstripped(action, variables) ==
    Join(S(",") \o S(" "), template_outputs_list(action, variables))

_template_outputs(action, variables) ==
    Strip(Join(S(",") \o S(" "), template_outputs_list(action, variables)))

\* ArtifactAPIUsage._template_input: one argument line, `    key=value,`
_template_input(k, v) == INDENT \o S(k) \o S("=") \o S(v) \o S(",")

FixmeWarning ==
    INDENT
    \o S("# FIXME: The following parameter name was not found in your current")
    \o S("\n") \o INDENT
    \o S("# QIIME 2 environment. This may occur when the plugin version you have")
    \o S("\n") \o INDENT
    \o S("# installed does not match the version used in the original analysis.")
    \o S("\n") \o << <<" ", 2>> >>
    \o S("# Please see the docs and correct the parameter name before running.")
    \o S("\n")

SaveNote ==
    S("# SAVE: comment out the following with '# ' to skip saving Results to disk")

\* faulty variant of UseCollection: >= for > on the collection size
UseCollection_at_threshold(action, variables) ==
    \/ Len(variables) >= action_collection_size
    \/ Len(action.outputs) > 5

\* the test of lines 189-192 and 221-224
UseCollection(action, variables) ==
    \/ Len(variables) > action_collection_size
    \/ Len(action.outputs) > 5

\* output_vars, the left-hand side of the call
OutputVars(action, variables) ==
    IF UseCollection(action, variables)
    THEN S("action_results")
    ELSE _template_outputs(action, variables)

\* f'{output_vars} = {plugin_id}_actions.{action_id}('
OpenLine(action, variables) ==
    OutputVars(action, variables) \o S(" = ") \o S(action.plugin_id)
    \o S("_actions.") \o S(action.action_id) \o S("(")

\* faulty variant of AllInputs: the parameter names are left out
AllInputs_without_parameters(action) ==
    {action.inputs[i] : i \in 1..Len(action.inputs)}

\* all_inputs: the live signature's input names and parameter names
AllInputs(action) ==
    {action.inputs[i] : i \in 1..Len(action.inputs)}
    \cup {action.parameters[i] : i \in 1..Len(action.parameters)}

\* the line appended for one entry of input_opts
ArgLine(action, k, v) ==
    (IF k \notin AllInputs(action) THEN FixmeWarning ELSE <<>>)
    \o _template_input(k, v)

\* '%s = action_results.%s' % (interface_name, k)
ExtractLine(v) == S(v.name) \o S(" = action_results.") \o S(v.output)

\* the loop of lines 225-227, over variables._asdict().items()
ExtractLines(action, variables) ==
    IF UseCollection(action, variables)
    THEN [i \in 1..Len(variables) |-> ExtractLine(variables[i])]
    ELSE <<>>

\* '%s.save(\'%s\')' % (interface_name, interface_name)
SaveLine(interface_name) ==
    S(interface_name) \o S(".save('") \o S(interface_name) \o S("')")

\* the loop of lines 233-236
SaveLines(variables) ==
    [i \in 1..Len(variables) |-> SaveLine(variables[i].name)]

\* the lines _template_action hands to _add
template_action_lines(action, input_opts, variables) ==
    <<OpenLine(action, variables)>>
    \o [i \in 1..Len(input_opts) |->
          ArgLine(action, input_opts[i][1], input_opts[i][2])]
    \o <<S(")")>>
    \o ExtractLines(action, variables)
    \o <<SaveNote>>
    \o SaveLines(variables)
    \o << <<>> >>

_template_action(action, input_opts, variables) ==
    /\ _add(template_action_lines(action, input_opts, variables))
    /\ ret' = None
    /\ UNCHANGED <<header, footer, local_imports, global_imports, init_data_refs>>

(***************************************************************************)
(* init_metadata and import_from_format.                                   *)
(***************************************************************************)
\* 'NOTE: You may substitute already-loaded Metadata for the following, or
\* cast a pandas.DataFrame to Metadata as needed.', character by character
MetadataNote ==
    << <<"a", 4>>, <<":", 1>>, <<" ", 1>>, <<"a", 3>>, <<" ", 1>>, <<"a", 3>>,
       <<" ", 1>>, <<"a", 10>>, <<" ", 1>>, <<"a", 7>>, <<"-", 1>>, <<"a", 6>>,
       <<" ", 1>>, <<"a", 8>>, <<" ", 1>>, <<"a", 3>>, <<" ", 1>>, <<"a", 3>>,
       <<" ", 1>>, <<"a", 9>>, <<".", 1>>, <<" ", 1>>, <<"a", 2>>, <<" ", 1>>,
       <<"a", 4>>, <<" ", 1>>, <<"a", 1>>, <<" ", 1>>, <<"a", 6>>, <<".", 1>>,
       <<"a", 9>>, <<" ", 1>>, <<"a", 2>>, <<" ", 1>>, <<"a", 8>>, <<" ", 1>>,
       <<"a", 2>>, <<" ", 1>>, <<"a", 6>>, <<".", 1>> >>

\* what self.comment(<the note>) adds to the recorder
MetadataNoteLines == comment_lines(MetadataNote)

\* dumped_md_fn is a str, '' by default; again: see _update_imports
init_metadata(name, dumped_md_fn, again) ==
    /\ init_data_refs' = init_data_refs \cup {name}
    /\ _update_imports({"from qiime2 import Metadata"}, again)
    /\ IF dumped_md_fn # <<>>
       THEN _add(<<S(name) \o S(" = Metadata.load(\"") \o dumped_md_fn
                   \o S(".tsv\")")>>)
       ELSE _add(MetadataNoteLines
                 \o <<S(name) \o S(" = Metadata.load(<your metadata filepath>)")>>)
    /\ ret' = S(name)
    /\ UNCHANGED <<header, footer>>

ImportSaveNote ==
    S("# SAVE: comment out the following with '# ' to skip saving this Result to disk")

\* view_type: [kind |-> "none"], [kind |-> "str", repr |-> ...] or
\* [kind |-> "format", name |-> ..., import_path |-> ...]; import_path is
\* the statement _update_imports(from_=import_path, import_=name) records,
\* "" when _canonical_module finds no module
import_from_format(name, semantic_type, view_type, again) ==
    LET lines == << S(name) \o S(" = Artifact.import_data("),
                    INDENT \o S(semantic_type) \o S(","),
                    INDENT \o S("<your data here>") \o S(",") >>
        has_path == view_type.kind = "format" /\ view_type.import_path # ""
        view_line ==
            IF view_type.kind = "none" THEN <<>>
            ELSE IF view_type.kind = "str"
                 THEN <<INDENT \o S(view_type.repr) \o S(",")>>
            ELSE IF has_path
                 THEN <<INDENT \o S(view_type.name) \o S(",")>>
            ELSE <<INDENT \o S("'") \o S(view_type.name) \o S("'") \o S(",")>>
        format_import ==
            IF has_path THEN {view_type.import_path} ELSE {}
    IN  /\ _update_imports(format_import \cup {"from qiime2 import Artifact"}, again)
        /\ _add(lines \o view_line
                \o << S(")"), ImportSaveNote, SaveLine(name), <<>> >>)
        /\ ret' = S(name)
        /\ UNCHANGED <<header, footer, init_data_refs>>

(***************************************************************************)
(* The driver after __init__: _reset_state(reset_global_imports=True) on a *)
(* new object.  enable_assertions is stored and never read in this file.   *)
(***************************************************************************)
Fresh ==
    /\ local_imports = {}
    /\ header = <<>>
    /\ recorder = <<>>
    /\ footer = <<>>
    /\ init_data_refs = {}
    /\ global_imports = {}

(***************************************************************************)
(* Specification Spec: one driver (action_collection_size at its default)  *)
(* on which the caller makes up to MaxOps calls, in any order.             *)
(***************************************************************************)
DefaultCollectionSize == 2

Init ==
    /\ Fresh
    /\ action_collection_size = DefaultCollectionSize
    /\ call = [op |-> "__init__"]
    /\ ret = None
    /\ pc = "idle"
    /\ nops = 0

\* a call c made on the driver in use
Op(c) ==
    /\ pc = "idle"
    /\ nops < MaxOps
    /\ call' = c
    /\ nops' = nops + 1
    /\ UNCHANGED <<pc, action_collection_size>>

Dags == { {}, {"5d90", "0a1f", "3c2e"} }

CommentTexts == { << <<"a", 5>>, <<" ", 1>>, <<"a", 3>> >> }

DemuxAction ==
    [plugin_id |-> "demux", action_id |-> "emp_single",
     inputs |-> <<"seqs">>, parameters |-> <<"barcodes">>,
     outputs |-> <<"per_sample_sequences", "error_correction_details">>]

DemuxInputs == << <<"seqs", "emp_seqs">>, <<"barcodes", "barcodes_mdc">> >>

DemuxVariables ==
    << [output |-> "per_sample_sequences", name |-> "per_sample_sequences_0"] >>

ViewTypes ==
    { [kind |-> "none"],
      [kind |-> "format", name |-> "BIOMV210Format",
       import_path |-> "from q2_types.feature_table import BIOMV210Format"] }

CallBuildHeader ==
    /\ Op([op |-> "build_header"])
    /\ ReplayPythonUsage_build_header

CallBuildFooter ==
    \E dag \in Dags :
        /\ Op([op |-> "build_footer", dag |-> dag])
        /\ ReplayPythonUsage_build_footer(dag)

CallComment ==
    \E line \in CommentTexts :
        /\ Op([op |-> "comment", line |-> line])
        /\ comment(line)

CallUpdateImports ==
    \E st \in {"from qiime2 import Artifact",
               "import qiime2.plugins.dada2.actions as dada2_actions"},
       again \in BOOLEAN :
        /\ Op([op |-> "_update_imports", statement |-> st])
        /\ _update_imports({st}, again)
        /\ ret' = None
        /\ UNCHANGED <<header, footer, recorder, init_data_refs>>

CallInitMetadata ==
    \E dumped_md_fn \in {<<>>, S("sample_metadata")}, again \in BOOLEAN :
        /\ Op([op |-> "init_metadata", name |-> "sample_metadata_0",
               dumped_md_fn |-> dumped_md_fn])
        /\ init_metadata("sample_metadata_0", dumped_md_fn, again)

CallImportFromFormat ==
    \E view_type \in ViewTypes, again \in BOOLEAN :
        /\ Op([op |-> "import_from_format", name |-> "table_0",
               view_type |-> view_type])
        /\ import_from_format("table_0", "'FeatureTable[Frequency]'", view_type, again)

CallTemplateAction ==
    /\ Op([op |-> "_template_action", action |-> DemuxAction,
           input_opts |-> DemuxInputs, variables |-> DemuxVariables])
    /\ _template_action(DemuxAction, DemuxInputs, DemuxVariables)

CallRender ==
    \E flush \in BOOLEAN :
        /\ Op([op |-> "render", flush |-> flush])
        /\ render(flush)

CallResetState ==
    \E reset_global_imports \in BOOLEAN :
        /\ Op([op |-> "_reset_state", reset_global_imports |-> reset_global_imports])
        /\ _reset_state(reset_global_imports)
        /\ ret' = None

Next ==
    \/ CallBuildHeader
    \/ CallBuildFooter
    \/ CallComment
    \/ CallUpdateImports
    \/ CallInitMetadata
    \/ CallImportFromFormat
    \/ CallTemplateAction
    \/ CallRender
    \/ CallResetState

Spec == Init /\ [][Next]_vars

(***************************************************************************)
(* Single-call specifications: a new driver, one call whose arguments are  *)
(* drawn from a bounded set in the initial state, and the step that makes  *)
(* that call.                                                              *)
(***************************************************************************)
InitCall(calls, sizes) ==
    /\ Fresh
    /\ action_collection_size \in sizes
    /\ call \in calls
    /\ ret = None
    /\ pc = "call"
    /\ nops = 0

\* the pending call is made
Made ==
    /\ pc = "call"
    /\ pc' = "done"
    /\ nops' = nops + 1
    /\ UNCHANGED <<call, action_collection_size>>

\* lists of at most n elements of set
SeqsUpTo(set, n) == UNION {[1..k -> set] : k \in 0..n}

Distinct(seq) == \A i, j \in 1..Len(seq) : i # j => seq[i] # seq[j]

(***************************************************************************)
(* SpecFooter: build_footer(dag) for every ProvDAG of up to MaxUuids       *)
(* parsed artifacts.                                                       *)
(***************************************************************************)
FooterDags ==
    {d \in SUBSET {UuidUniverse[i] : i \in 1..Len(UuidUniverse)} :
        Cardinality(d) <= MaxUuids}

InitFooter ==
    InitCall({[op |-> "build_footer", dag |-> d] : d \in FooterDags},
             {DefaultCollectionSize})

NextFooter == Made /\ ReplayPythonUsage_build_footer(call.dag)

SpecFooter == InitFooter /\ [][NextFooter]_vars

(***************************************************************************)
(* SpecComment: comment(line) for every text of up to MaxRuns runs of      *)
(* letters, hyphens and spaces, the run lengths chosen around the wrap     *)
(* width.                                                                  *)
(***************************************************************************)
TextRuns ==
    {<<"a", n>> : n \in {1, 2, 38, 39, 76, 78}}
    \cup {<<"-", n>> : n \in {1, 2}}
    \cup {<<" ", n>> : n \in {1, 2, 78}}

Texts ==
    {t \in SeqsUpTo(TextRuns, MaxRuns) :
        \A i \in 1..(Len(t) - 1) : t[i][1] # t[i + 1][1]}

InitComment ==
    InitCall({[op |-> "comment", line |-> t] : t \in Texts},
             {DefaultCollectionSize})

NextComment == Made /\ comment(call.line)

SpecComment == InitComment /\ [][NextComment]_vars

(***************************************************************************)
(* SpecAction: _template_action(action, input_opts, variables) for live    *)
(* signatures of 1, 2, 3 and 6 declared outputs, input_opts of up to       *)
(* MaxInputs entries (one key unknown to the live signature) and variables *)
(* of up to MaxVars entries in any order (one recorded under an output the *)
(* live signature does not declare), on drivers of collection size 1 and   *)
(* 2.                                                                      *)
(***************************************************************************)
OutputNames == <<"out1", "out2", "out3", "out4", "out5", "out6">>

ActionWith(n) ==
    [plugin_id |-> "feature_table", action_id |-> "rarefy",
     inputs |-> <<"table">>, parameters |-> <<"sampling_depth">>,
     outputs |-> SubSeq(OutputNames, 1, n)]

Actions == {ActionWith(n) : n \in {1, 2, 3, 6}}

RecordedInputs ==
    { <<"table", "table_0">>, <<"sampling_depth", "1000">>,
      <<"with_replacement", "False">> }

InputOpts ==
    {io \in SeqsUpTo(RecordedInputs, MaxInputs) : Distinct(io)}

RecordedVariables ==
    { [output |-> "out1", name |-> "out1_0"],
      [output |-> "out2", name |-> "out2_0"],
      [output |-> "out3", name |-> "out3_0"],
      [output |-> "rarefied_table", name |-> "rarefied_table_0"] }

Variables ==
    {vs \in SeqsUpTo(RecordedVariables, MaxVars) : Distinct(vs)}

CollectionSizes == {1, 2}

InitAction ==
    InitCall({[op |-> "_template_action", action |-> a, input_opts |-> io,
               variables |-> vs] : a \in Actions, io \in InputOpts, vs \in Variables},
             CollectionSizes)

NextAction == Made /\ _template_action(call.action, call.input_opts, call.variables)

SpecAction == InitAction /\ [][NextAction]_vars

(***************************************************************************)
(* Reading back what one call appended.  In the single-call specifications *)
(* the driver is new, so the recorder holds exactly the call's lines.      *)
(***************************************************************************)
Emitted == recorder

\* the atoms of a str, as a list
Atoms(l) == [i \in 1..Len(l) |-> l[i][1]]

HasAtom(l, a) == \E i \in 1..Len(l) : l[i][1] = a

FirstIndex(l, a) ==
    CHOOSE i \in 1..Len(l) : l[i][1] = a /\ \A j \in 1..(i - 1) : l[j][1] # a

\* the left-hand side of the call-open line: what stands before ' = '
Targets(open) == SubSeq(open, 1, FirstIndex(open, " = ") - 1)

IsSeparator(run) == run[1] \in {",", " "}

IsName(run) == ~IsSeparator(run)

\* the names the call-open line binds, left to right
TargetNames(open) == Atoms(SelectSeq(Targets(open), IsName))

IsExtractLine(l) == Len(l) = 3 /\ l[2][1] = " = action_results."

IsSaveLine(l) == Len(l) = 4 /\ l[2][1] = ".save('" /\ l[4][1] = "')"

\* position of a declared output in the live signature, 0 when undeclared
DeclaredIndex(action, output) ==
    IF \E i \in 1..Len(action.outputs) : action.outputs[i] = output
    THEN CHOOSE i \in 1..Len(action.outputs) : action.outputs[i] = output
    ELSE 0

ActionDone == pc = "done" /\ call.op = "_template_action"

Collective ==
    \/ Len(call.variables) > action_collection_size
    \/ Len(call.action.outputs) > 5

\* the name recorded for a declared output, "_" when none is recorded
BoundName(output) ==
    IF \E i \in 1..Len(call.variables) : call.variables[i].output = output
    THEN (CHOOSE v \in {call.variables[i] : i \in 1..Len(call.variables)} :
             v.output = output).name
    ELSE "_"

DeclaredOrderNames ==
    [i \in 1..Len(call.action.outputs) |-> BoundName(call.action.outputs[i])]

(***************************************************************************)
(* C3.  Every rendered action binds its outputs in exactly one style: when *)
(* the number of known output variables exceeds action_collection_size or  *)
(* the number of declared outputs exceeds 5, the call-open line binds the  *)
(* single handle action_results and there is one extraction line           *)
(* `<name> = action_results.<output>` per known output; otherwise the      *)
(* call-open line binds what _template_outputs returns and there is no     *)
(* extraction line.                                                        *)
(***************************************************************************)
C3_OneBindingStyle ==
    ActionDone =>
        LET extracts == SelectSeq(Emitted, IsExtractLine)
            lhs == Targets(Emitted[1])
        IN  IF Collective
            THEN /\ lhs = S("action_results")
                 /\ Len(extracts) = Len(call.variables)
                 /\ \A i \in 1..Len(call.variables) :
                        \E j \in 1..Len(extracts) :
                            /\ extracts[j][1][1] = call.variables[i].name
                            /\ extracts[j][3][1] = call.variables[i].output
            ELSE /\ lhs = _template_outputs(call.action, call.variables)
                 /\ ~HasAtom(lhs, "action_results")
                 /\ extracts = <<>>

\* three known outputs on a driver of collection size 2, three declared
C3_Witness ==
    /\ ActionDone
    /\ action_collection_size = 2
    /\ Len(call.variables) = 3
    /\ Len(call.action.outputs) = 3
    /\ Len(SelectSeq(Emitted, IsExtractLine)) = 3

(***************************************************************************)
(* C4, as claimed.  For an action with exactly one declared output,        *)
(* _template_outputs builds a list of exactly two entries (the output's    *)
(* name or the placeholder, then the empty string) and returns that single *)
(* name with no trailing comma.                                            *)
(***************************************************************************)
C4_Original ==
    (ActionDone /\ Len(call.action.outputs) = 1) =>
        LET output_vars == template_outputs_list(call.action, call.variables)
        IN  /\ Len(output_vars) = 2
            /\ output_vars[1] = S(BoundName(call.action.outputs[1]))
            /\ output_vars[2] = <<>>
            /\ _template_outputs(call.action, call.variables) = output_vars[1]

(***************************************************************************)
(* C4, amended.  For an action with exactly one declared output,           *)
(* _template_outputs builds a list of exactly two entries (the output's    *)
(* name or the placeholder, then the empty string) and returns that single *)
(* name followed by one comma and no trailing space; under individual      *)
(* binding that is the left-hand side of the call-open line.               *)
(***************************************************************************)
C4_SingleOutputTrailingComma ==
    (ActionDone /\ Len(call.action.outputs) = 1) =>
        LET output_vars == template_outputs_list(call.action, call.variables)
            name == BoundName(call.action.outputs[1])
        IN  /\ Len(output_vars) = 2
            /\ output_vars[1] = S(name)
            /\ output_vars[2] = <<>>
            /\ _template_outputs(call.action, call.variables) = S(name) \o S(",")
            /\ ~Collective => Targets(Emitted[1]) = S(name) \o S(",")

C4_Witness ==
    /\ ActionDone
    /\ ~Collective
    /\ Len(call.action.outputs) = 1
    /\ BoundName("out1") = "out1_0"
    /\ Atoms(Targets(Emitted[1])) = <<"out1_0", ",">>

(***************************************************************************)
(* C5.  Every key of input_opts that is not among the live signature's     *)
(* input and parameter names gets the FIXME warning immediately before its *)
(* argument line, and no other key does; the mismatch never stops the      *)
(* rendering: every argument line in input_opts order, the closing ')',    *)
(* the SAVE comment, one save line per output variable and the trailing    *)
(* empty line are all appended to the body.                                *)
(***************************************************************************)
LiveNames ==
    {call.action.inputs[i] : i \in 1..Len(call.action.inputs)}
    \cup {call.action.parameters[i] : i \in 1..Len(call.action.parameters)}

C5_WarningNeverAborts ==
    ActionDone =>
        LET n_in == Len(call.input_opts)
            n_ex == Len(SelectSeq(Emitted, IsExtractLine))
            n_v == Len(call.variables)
        IN  /\ Len(Emitted) = 1 + n_in + 1 + n_ex + 1 + n_v + 1
            /\ \A i \in 1..n_in :
                   LET k == call.input_opts[i][1]
                       v == call.input_opts[i][2]
                       line == Emitted[1 + i]
                       arg == INDENT \o S(k) \o S("=") \o S(v) \o S(",")
                   IN  IF k \in LiveNames
                       THEN line = arg
                       ELSE /\ line = FixmeWarning \o arg
                            /\ HasAtom(FixmeWarning,
                                  "# FIXME: The following parameter name was not found in your current")
                            /\ FixmeWarning[Len(FixmeWarning)][1] = "\n"
            /\ Emitted[2 + n_in] = S(")")
            /\ Emitted[3 + n_in + n_ex] = SaveNote
            /\ \A i \in 1..n_v :
                   /\ IsSaveLine(Emitted[3 + n_in + n_ex + i])
                   /\ Emitted[3 + n_in + n_ex + i][1][1] = call.variables[i].name
                   /\ Emitted[3 + n_in + n_ex + i][3][1] = call.variables[i].name
            /\ Emitted[Len(Emitted)] = <<>>

\* an unknown key first, a live one after it, and an output to save
C5_Witness ==
    /\ ActionDone
    /\ Len(call.input_opts) = 2
    /\ call.input_opts[1][1] = "with_replacement"
    /\ call.input_opts[2][1] = "table"
    /\ Len(call.variables) >= 1
    /\ HasAtom(Emitted[2], "\n")
    /\ ~HasAtom(Emitted[3], "\n")

(***************************************************************************)
(* C6, as claimed.  Under both binding styles the outputs are bound in the *)
(* order the live signature declares them, whatever the order of the       *)
(* supplied variables: under individual binding the call-open line names   *)
(* them in declared order with '_' for a declared output that has no       *)
(* recorded variable; under collective binding the extraction lines follow *)
(* the declared order.                                                     *)
(***************************************************************************)
ExtractedOutputs == 
    LET extracts == SelectSeq(Emitted, IsExtractLine)
    IN  [i \in 1..Len(extracts) |-> extracts[i][3][1]]

C6_Original ==
    ActionDone =>
        IF Collective
        THEN \A i, j \in 1..Len(ExtractedOutputs) :
                (/\ i < j
                 /\ DeclaredIndex(call.action, ExtractedOutputs[i]) > 0
                 /\ DeclaredIndex(call.action, ExtractedOutputs[j]) > 0)
                => DeclaredIndex(call.action, ExtractedOutputs[i])
                     < DeclaredIndex(call.action, ExtractedOutputs[j])
        ELSE TargetNames(Emitted[1]) = DeclaredOrderNames

(***************************************************************************)
(* C6, amended.  Under individual binding the call-open line names the     *)
(* outputs in the order the live signature declares them, whatever the     *)
(* order of the supplied variables, with '_' at the position of a declared *)
(* output that has no recorded variable.  Under collective binding the     *)
(* extraction lines follow the order of the supplied variables, each       *)
(* taking its output from action_results by the output's name.             *)
(***************************************************************************)
C6_DeclaredOrderWhenUnpacking ==
    ActionDone =>
        IF Collective
        THEN LET extracts == SelectSeq(Emitted, IsExtractLine)
             IN  /\ Len(extracts) = Len(call.variables)
                 /\ \A i \in 1..Len(extracts) :
                        /\ extracts[i][1][1] = call.variables[i].name
                        /\ extracts[i][3][1] = call.variables[i].output
        ELSE TargetNames(Emitted[1]) = DeclaredOrderNames

\* individual binding of three declared outputs, the variables supplied in
\* reverse order and the second output not recorded
C6_Witness ==
    /\ ActionDone
    /\ ~Collective
    /\ Len(call.action.outputs) = 3
    /\ Len(call.variables) = 2
    /\ call.variables[1].output = "out3"
    /\ call.variables[2].output = "out1"
    /\ TargetNames(Emitted[1]) = <<"out1_0", "_", "out3_0">>

(***************************************************************************)
(* C10.  Every interface name that a save statement of one rendered        *)
(* invocation uses is bound on an earlier line of that invocation: as a    *)
(* target of the call-open line or by an extraction line.                  *)
(***************************************************************************)
C10_SavedNamesAreBound ==
    ActionDone =>
        \A i \in 1..Len(Emitted) :
            IsSaveLine(Emitted[i]) =>
                \/ \E t \in 1..Len(TargetNames(Emitted[1])) :
                       TargetNames(Emitted[1])[t] = Emitted[i][1][1]
                \/ \E j \in 1..(i - 1) :
                       /\ IsExtractLine(Emitted[j])
                       /\ Emitted[j][1][1] = Emitted[i][1][1]

(***************************************************************************)
(* C8.  For a ProvDAG of N parsed artifacts the footer is: the boundary,   *)
(* the explanatory line, ceil(N/2) identifier lines, the boundary, one     *)
(* empty line.  Read left to right and top to bottom the identifiers are   *)
(* in ascending order, each exactly once; every identifier line holds two  *)
(* of them, except that the last holds one exactly when N is odd.          *)
(***************************************************************************)
UuidSet == {UuidUniverse[i] : i \in 1..Len(UuidUniverse)}

IsUuidRun(run) == run[1] \in UuidSet

\* the identifiers on one footer line, left to right
UuidsOn(l) == Atoms(SelectSeq(l, IsUuidRun))

RECURSIVE Flatten(_)
Flatten(lists) ==
    IF lists = <<>> THEN <<>> ELSE lists[1] \o Flatten(Tail(lists))

C8_FooterLayout ==
    (pc = "done" /\ call.op = "build_footer") =>
        LET n == Cardinality(call.dag)
            rows == (n + 1) \div 2
            ids == Flatten([r \in 1..rows |-> UuidsOn(footer[2 + r])])
        IN  /\ Len(footer) = rows + 4
            /\ footer[1] = header_boundary
            /\ footer[2] = FooterNote
            /\ footer[rows + 3] = header_boundary
            /\ footer[rows + 4] = <<>>
            /\ \A r \in 1..rows :
                   /\ SubSeq(footer[2 + r], 1, 2) = CommentPrefix
                   /\ Len(UuidsOn(footer[2 + r]))
                        = IF r = rows /\ n % 2 = 1 THEN 1 ELSE 2
                   /\ Len(UuidsOn(footer[2 + r])) = 2
                        => Atoms(footer[2 + r])
                             = <<"#", " ", UuidsOn(footer[2 + r])[1], " ", "\t",
                                 " ", UuidsOn(footer[2 + r])[2]>>
            /\ Len(ids) = n
            /\ {ids[i] : i \in 1..Len(ids)} = call.dag
            /\ \A i \in 1..(Len(ids) - 1) : Rank(ids[i]) < Rank(ids[i + 1])

\* three artifacts: one full identifier line and a last line of one
C8_Witness ==
    /\ pc = "done"
    /\ call.op = "build_footer"
    /\ Cardinality(call.dag) = 3
    /\ Len(footer) = 6
    /\ Len(UuidsOn(footer[3])) = 2
    /\ Len(UuidsOn(footer[4])) = 1

(***************************************************************************)
(* Reading back a comment block.                                           *)
(***************************************************************************)
RECURSIVE WordsOf(_)
\* the maximal whitespace-free pieces of a str, in order
WordsOf(t) ==
    IF t = <<>> THEN <<>>
    ELSE IF IsWs(t[1][1]) THEN WordsOf(Tail(t))
    ELSE LET e == CHOOSE i \in 1..Len(t) :
                     /\ \A j \in 1..i : ~IsWs(t[j][1])
                     /\ i = Len(t) \/ IsWs(t[i + 1][1])
         IN  <<SubSeq(t, 1, e)>> \o WordsOf(SubSeq(t, e + 1, Len(t)))

RECURSIVE Covers(_, _, _)
\* every text is a run of consecutive whole chunks, the texts taken in
\* order, and the chunks between and around them are whitespace
Covers(texts, chunks, i) ==
    IF texts = <<>> THEN \A j \in i..Len(chunks) : IsBlank(chunks[j])
    ELSE \E a \in i..Len(chunks) : \E b \in a..Len(chunks) :
            /\ \A j \in i..(a - 1) : IsBlank(chunks[j])
            /\ texts[1] = Concat(SubSeq(chunks, a, b))
            /\ Covers(Tail(texts), chunks, b + 1)

CommentDone == pc = "done" /\ call.op = "comment"

\* the appended lines but the last, and each of them without its prefix
CommentLines == SubSeq(Emitted, 1, Len(Emitted) - 1)

Unprefixed == [i \in 1..Len(CommentLines) |-> Drop(CommentLines[i], 2)]

(***************************************************************************)
(* C9, as claimed.  comment(text) appends only lines that start with '# '  *)
(* and are at most 79 characters long with the prefix, never puts parts of *)
(* one word on two lines, and ends the block with exactly one empty line.  *)
(***************************************************************************)
C9_Original ==
    CommentDone =>
        /\ Len(Emitted) >= 1
        /\ Emitted[Len(Emitted)] = <<>>
        /\ \A i \in 1..Len(CommentLines) :
               /\ Take(CommentLines[i], 2) = CommentPrefix
               /\ StrLen(CommentLines[i]) > 2
               /\ StrLen(CommentLines[i]) <= LINE_LEN
        /\ Flatten([i \in 1..Len(Unprefixed) |-> WordsOf(Unprefixed[i])])
             = WordsOf(call.line)

(***************************************************************************)
(* C9, amended.  comment(text) appends only lines that start with '# ';    *)
(* such a line is longer than 79 characters only when it holds nothing but *)
(* one unbreakable chunk of more than 77 characters; every line holds      *)
(* consecutive whole chunks of the text, so a line break falls only at     *)
(* whitespace or where textwrap breaks a hyphenated word (after a hyphen   *)
(* between letters, around an em-dash) and never inside a chunk; and the   *)
(* block ends with exactly one empty line.                                 *)
(***************************************************************************)
C9_BreaksOnlyBetweenChunks ==
    CommentDone =>
        LET chunks == Split(MungeWhitespace(call.line))
        IN  /\ Len(Emitted) >= 1
            /\ Emitted[Len(Emitted)] = <<>>
            /\ \A i \in 1..Len(CommentLines) :
                   /\ Take(CommentLines[i], 2) = CommentPrefix
                   /\ StrLen(CommentLines[i]) > 2
                   /\ \/ StrLen(CommentLines[i]) <= LINE_LEN
                      \/ \E j \in 1..Len(chunks) :
                             /\ chunks[j] = Unprefixed[i]
                             /\ StrLen(chunks[j]) > LINE_LEN - 2
            /\ Covers(Unprefixed, chunks, 1)

\* a text that is wrapped and holds a word too long for any line
C9_Witness ==
    /\ CommentDone
    /\ Len(CommentLines) >= 2
    /\ \E i \in 1..Len(CommentLines) : StrLen(CommentLines[i]) > LINE_LEN

(***************************************************************************)
(* Reading back a rendered text.                                           *)
(***************************************************************************)
RECURSIVE SplitLines(_)
\* text.split('\n'); every newline of a rendered text is a run of its own
SplitLines(t) ==
    IF ~HasAtom(t, "\n") THEN <<t>>
    ELSE LET i == FirstIndex(t, "\n")
         IN  <<SubSeq(t, 1, i - 1)>> \o SplitLines(SubSeq(t, i + 1, Len(t)))

\* the step is a call of render
RenderStep == call'.op = "render" /\ nops' = nops + 1

(***************************************************************************)
(* C1.  render(flush=False) is a pure read: it leaves header, footer,      *)
(* recorder, local_imports and global_imports as they were, and so two     *)
(* render() calls with nothing in between return the same text.            *)
(***************************************************************************)
C1_RenderIsPureRead ==
    [][(RenderStep /\ ~call'.flush) =>
          /\ header' = header
          /\ footer' = footer
          /\ recorder' = recorder
          /\ local_imports' = local_imports
          /\ global_imports' = global_imports
          /\ (call.op = "render" /\ ~call.flush) => ret' = ret]_vars

(***************************************************************************)
(* C2.  render(flush=True) leaves nothing of the header, the body, the     *)
(* footer or the local imports behind: the driver's local state is that of *)
(* _reset_state(), a render() right after it returns the empty text, and   *)
(* global_imports holds what it held before the flush.  global_imports     *)
(* loses an entry only in _reset_state(reset_global_imports=True).         *)
(***************************************************************************)
C2_FlushClearsLocalState ==
    [][/\ (RenderStep /\ call'.flush) =>
             /\ header' = <<>>
             /\ recorder' = <<>>
             /\ footer' = <<>>
             /\ local_imports' = {}
             /\ init_data_refs' = {}
             /\ Rendered' = <<>>
             /\ global_imports' = global_imports
       /\ (RenderStep /\ call.op = "render" /\ call.flush) => ret' = <<>>
       /\ ~(global_imports \subseteq global_imports') =>
             /\ call'.op = "_reset_state"
             /\ call'.reset_global_imports]_vars

\* a flush of a script that had a header, a body, a footer and an import
C2_Witness ==
    /\ call.op = "render"
    /\ call.flush
    /\ HasAtom(ret, AttributionLine[1][1])
    /\ HasAtom(ret, "from qiime2 import Metadata")
    /\ HasAtom(ret, FooterNote[1][1])
    /\ header = <<>>
    /\ recorder = <<>>
    /\ footer = <<>>
    /\ local_imports = {}
    /\ "from qiime2 import Metadata" \in global_imports

(***************************************************************************)
(* C7.  Whatever was recorded into local_imports, and in whatever order,   *)
(* the text render() returns holds, after the header and its separator,    *)
(* each distinct import statement exactly once, in ascending lexical       *)
(* order, followed by one empty line; with no import recorded neither the  *)
(* block nor its separator is there.                                       *)
(***************************************************************************)
C7_ImportBlock ==
    [][RenderStep =>
          LET hdr == IF header = <<>> THEN <<>> ELSE header \o << <<>> >>
              ftr == IF footer = <<>> THEN <<>> ELSE << <<>> >> \o footer
              k == Cardinality(local_imports)
              lines == SplitLines(ret')
              off == Len(hdr)
          IN  IF k = 0
              THEN ret' = Join(S("\n"), hdr \o recorder \o ftr)
              ELSE /\ Len(lines) >= off + k + 1
                   /\ LET block == SubSeq(lines, off + 1, off + k)
                      IN  /\ \A i \in 1..k :
                                 /\ Len(block[i]) = 1
                                 /\ block[i][1][1] \in local_imports
                          /\ \A i \in 1..(k - 1) :
                                 Rank(block[i][1][1]) < Rank(block[i + 1][1][1])
                          /\ {block[i][1][1] : i \in 1..k} = local_imports
                          /\ lines[off + k + 1] = <<>>
                          /\ ret' = Join(S("\n"),
                                         hdr \o block \o << <<>> >> \o recorder \o ftr)]_vars

\* a render of a script with a header and three import statements
C7_Witness ==
    /\ call.op = "render"
    /\ ~call.flush
    /\ Cardinality(local_imports) >= 2
    /\ HasAtom(ret, "from qiime2 import Artifact")
    /\ HasAtom(ret, "from qiime2 import Metadata")

====
